---- MODULE Spec2Model ----
(***************************************************************************)
(* Model of SmartFinanceApp.upload (frontend/static/js/main.js): the file  *)
(* staging handlers, the submit handler with its two awaits, the progress  *)
(* ticker created by simulateProgress, and window.clearFile.               *)
(*                                                                         *)
(* The DOM is modelled by the properties the handlers write: the display   *)
(* of the four panels, the disabled flag of the submit button, the text of *)
(* the preview and the width of the progress bar.  Every element looked up *)
(* by id is taken to exist on the upload page.                             *)
(***************************************************************************)
EXTENDS Integers, Sequences, FiniteSets, Bags

VARIABLES
    currentFile,        \* upload.currentFile: Null or a File
    submitDisabled,     \* #submitBtn.disabled
    previewVisible,     \* #filePreview display is 'block'
    previewName,        \* #fileName textContent
    previewSize,        \* #fileSize textContent
    formVisible,        \* #uploadForm display is not 'none'
    processingVisible,  \* #processingStatus display is 'block'
    resultsVisible,     \* #processingResults display is 'block'
    stats,              \* the text of #processedCount, #categorizedCount,
                        \* #merchantsFound and #confidenceScore
    progressBar,        \* .progress-bar style.width, in percent
    tickers,            \* live setInterval closures: the bag of their `width`s
    requests,           \* the bag of handleSubmit invocations suspended at an
                        \* await
    lastToasts,         \* showToast calls made by the latest handler run
    candidate,          \* the File handed to handleFile by the latest handler
                        \* run, Null when that run was not handleFile
    charts,             \* dashboard.charts: slot |-> the chart it references
    created,            \* the Chart objects constructed so far, in order
    loads,              \* the bag of loadDashboardData invocations suspended
                        \* at an await of apiRequest
    refreshes,          \* dashboard.refresh calls made so far
    apiOutcome,         \* how the apiRequest call settled by the latest
                        \* handler run ended, NoApiRequest when none was
    now,                \* the time, in milliseconds
    timeout,            \* the timer of the debounced function's closure
    lastCall,           \* the latest call of the debounced function
    burst,              \* the calls of the burst the latest call belongs to
    reported,           \* func has run since the latest call
    invokedWith         \* the arguments func got in the latest step

\* the elements and fields of the upload page
uploadState == <<currentFile, submitDisabled, previewVisible, previewName,
                 previewSize, formVisible, processingVisible, resultsVisible,
                 stats, progressBar, tickers, requests>>

dashboardVars == <<charts, created, loads, refreshes, apiOutcome>>

debounceVars == <<now, timeout, lastCall, burst, reported, invokedWith>>

\* what no handler of the upload page reads or writes
elsewhere == <<dashboardVars, debounceVars>>

vars == <<uploadState, lastToasts, candidate, dashboardVars, debounceVars>>

----------------------------------------------------------------------------
(* Bounds of the model *)

\* handleSubmit invocations that may be suspended at the same time, and
\* interval timers that may be live at the same time
MaxInFlight == 2

\* calls of dashboard.refresh in one visit of the dashboard page
MaxRefresh == 2

\* the last millisecond the clock of the debounced function reaches
MaxTime == 6

\* calls of the debounced function in one burst
MaxBurst == 3

----------------------------------------------------------------------------
(* Values *)

\* upload.currentFile when no file is staged
Null == [null |-> TRUE]

\* a property the JSON object does not carry
Undefined == "undefined"

\* the statistics elements as the page is served, before showResults has run
NotRendered == [rendered |-> FALSE]

\* the properties dashboard.loadDashboardData assigns in dashboard.charts
Slots == {"spending", "category"}

\* a property of dashboard.charts that was never assigned
NoChart == 0

\* no call of apiRequest settled
NoApiRequest ==
    [settled |-> "none", fetch |-> "none", status |-> 0, body |-> "none",
     value |-> "none"]

\* `timeout` before setTimeout has returned an id, or after its timer ran
NoTimer == [armed |-> FALSE, due |-> 0, args |-> "none"]

\* the debounced function was never called
NoCall == [made |-> FALSE, at |-> 0, args |-> "none"]

\* func did not run
NotInvoked == "not invoked"

\* 16 * 1024 * 1024
maxSize == 16777216

allowedTypes == {"text/plain", "text/csv", "application/json"}

\* the alternatives of /\.(txt|csv|json)$/i, dot included
allowedExtensions ==
    { <<".", "t", "x", "t">>, <<".", "c", "s", "v">>, <<".", "j", "s", "o", "n">> }

TypeWarning == "Please select a valid file type (.txt, .csv, .json)"
SizeWarning == "File size must be less than 16MB"
NoFileWarning == "Please select a file to upload"
UploadFailed == "An error occurred while processing your file. Please try again."

Toast(message, type) == [message |-> message, type |-> type]

\* a handler run other than handleFile made these showToast calls
Shows(toasts) == lastToasts' = toasts /\ candidate' = Null

\* a File: name is the sequence of its characters
File(name, type, size) == [name |-> name, type |-> type, size |-> size]

----------------------------------------------------------------------------
(* String helpers: the case folding and the anchored match of the regex *)

Upper == <<"A","B","C","D","E","F","G","H","I","J","K","L","M",
           "N","O","P","Q","R","S","T","U","V","W","X","Y","Z">>
Lower == <<"a","b","c","d","e","f","g","h","i","j","k","l","m",
           "n","o","p","q","r","s","t","u","v","w","x","y","z">>

Fold == [c \in {Upper[i] : i \in 1..26} |-> Lower[CHOOSE i \in 1..26 : Upper[i] = c]]

ToLowerChar(c) == IF c \in DOMAIN Fold THEN Fold[c] ELSE c

ToLower(s) == [i \in 1..Len(s) |-> ToLowerChar(s[i])]

EndsWith(s, suffix) ==
    /\ Len(s) >= Len(suffix)
    /\ SubSeq(s, Len(s) - Len(suffix) + 1, Len(s)) = suffix

\* variant: the regex without its $ anchor, /\.(txt|csv|json)/i
MatchesExtensionUnanchored(name) ==
    \E ext \in allowedExtensions : \E j \in 1..Len(name) :
        /\ j + Len(ext) - 1 <= Len(name)
        /\ SubSeq(ToLower(name), j, j + Len(ext) - 1) = ext

\* file.name.match(/\.(txt|csv|json)$/i) is not null
MatchesExtension(name) ==
    \E ext \in allowedExtensions : EndsWith(ToLower(name), ext)

\* the bag holding x once
One(x) == SetToBag({x})

----------------------------------------------------------------------------
(* upload.validateFile: the verdict and the toasts it shows *)

\* variant: the size test written >= instead of >
ValidateFileSizeInclusive(file) ==
    IF file.type \notin allowedTypes /\ ~MatchesExtension(file.name)
    THEN [valid |-> FALSE, toasts |-> <<Toast(TypeWarning, "warning")>>]
    ELSE IF file.size >= maxSize
    THEN [valid |-> FALSE, toasts |-> <<Toast(SizeWarning, "warning")>>]
    ELSE [valid |-> TRUE, toasts |-> <<>>]

\* variant: the size test placed before the type test
ValidateFileSizeFirst(file) ==
    IF file.size > maxSize
    THEN [valid |-> FALSE, toasts |-> <<Toast(SizeWarning, "warning")>>]
    ELSE IF file.type \notin allowedTypes /\ ~MatchesExtension(file.name)
    THEN [valid |-> FALSE, toasts |-> <<Toast(TypeWarning, "warning")>>]
    ELSE [valid |-> TRUE, toasts |-> <<>>]

ValidateFile(file) ==
    IF file.type \notin allowedTypes /\ ~MatchesExtension(file.name)
    THEN [valid |-> FALSE, toasts |-> <<Toast(TypeWarning, "warning")>>]
    ELSE IF file.size > maxSize
    THEN [valid |-> FALSE, toasts |-> <<Toast(SizeWarning, "warning")>>]
    ELSE [valid |-> TRUE, toasts |-> <<>>]

(* upload.formatFileSize: <<hundredths of the unit, unit>>, the value of   *)
(* (bytes / k^i).toFixed(2) in exact arithmetic                            *)

k == 1024

sizes == <<"Bytes", "KB", "MB", "GB">>

RECURSIVE Pow(_, _)
Pow(b, e) == IF e = 0 THEN 1 ELSE b * Pow(b, e - 1)

\* Math.floor(Math.log(bytes) / Math.log(k)), bytes >= 1
RECURSIVE LogFloor(_)
LogFloor(bytes) == IF bytes < k THEN 0 ELSE 1 + LogFloor(bytes \div k)

FormatFileSize(bytes) ==
    IF bytes = 0 THEN <<0, "Bytes">>
    ELSE LET i == LogFloor(bytes)
             unit == Pow(k, i)
             rest == bytes % unit
         IN  << 100 * (bytes \div unit) + (2 * 100 * rest + unit) \div (2 * unit),
                sizes[i + 1] >>

----------------------------------------------------------------------------
(* The candidate files offered by the file picker or a drop *)

Names ==
    { <<"a", ".", "t", "x", "t">>,
      <<"A", ".", "T", "X", "T">>,
      <<"b", ".", "c", "s", "v">>,
      <<"b", ".", "C", "s", "v">>,
      <<"c", ".", "j", "s", "o", "n">>,
      <<"C", ".", "J", "S", "O", "N">>,
      <<"t", "x", "t">>,
      <<"a", ".", "t", "x", "t", ".", "e", "x", "e">>,
      <<"a", ".", "p", "d", "f">>,
      <<"a", ".", "j", "s", "o", "n", "l">>,
      <<".", "c", "s", "v">>,
      << >> }

Types ==
    { "text/plain", "text/csv", "application/json",
      "application/vnd.ms-excel", "" }

Sizes == { 1024, maxSize, maxSize + 1 }

\* every candidate, for the staging handlers taken alone
Candidates == { File(n, t, s) : n \in Names, t \in Types, s \in Sizes }

\* the candidates of the whole upload flow
reportTxt == File(<<"a", ".", "t", "x", "t">>, "text/plain", 1024)
ledgerCsv == File(<<"b", ".", "C", "s", "v">>, "application/vnd.ms-excel", maxSize)
scanPdf   == File(<<"a", ".", "p", "d", "f">>, "application/pdf", 1024)

Files == { reportTxt, ledgerCsv, scanPdf }

----------------------------------------------------------------------------
(* Initial state: the upload page as loaded, upload.currentFile: null *)

InitUpload ==
    /\ currentFile = Null
    /\ submitDisabled = TRUE
    /\ previewVisible = FALSE
    /\ previewName = <<>>
    /\ previewSize = <<>>
    /\ formVisible = TRUE
    /\ processingVisible = FALSE
    /\ resultsVisible = FALSE
    /\ stats = NotRendered
    /\ progressBar = 0
    /\ tickers = EmptyBag
    /\ requests = EmptyBag
    /\ lastToasts = <<>>
    /\ candidate = Null

\* dashboard: { charts: {} }, loadDashboardData not called
DashboardUnloaded ==
    /\ charts = [slot \in Slots |-> NoChart]
    /\ created = <<>>
    /\ loads = EmptyBag
    /\ refreshes = 0
    /\ apiOutcome = NoApiRequest

\* a function just wrapped by debounce: `let timeout;`
InitDebounce ==
    /\ now = 0
    /\ timeout = NoTimer
    /\ lastCall = NoCall
    /\ burst = 0
    /\ reported = FALSE
    /\ invokedWith = NotInvoked

Init == InitUpload /\ DashboardUnloaded /\ InitDebounce

----------------------------------------------------------------------------
(* upload.handleFile, with upload.showFilePreview *)

\* variant: the form data reads upload.currentFile when the request is sent,
\* so a selection made meanwhile replaces the file of the requests in flight
HandleFileRewritesPayload(file) ==
    LET v == ValidateFile(file)
        resent == BagToSet(requests)
    IN
    /\ lastToasts' = v.toasts
    /\ candidate' = file
    /\ UNCHANGED elsewhere
    /\ IF ~v.valid
       THEN UNCHANGED <<currentFile, submitDisabled, previewVisible,
                        previewName, previewSize, requests>>
       ELSE /\ currentFile' = file
            /\ previewName' = file.name
            /\ previewSize' = FormatFileSize(file.size)
            /\ previewVisible' = TRUE
            /\ submitDisabled' = FALSE
            /\ requests' = [ q \in { [r EXCEPT !.file = file] : r \in resent }
                               |-> BagCardinality(requests) ]
    /\ UNCHANGED <<formVisible, processingVisible, resultsVisible, stats,
                   progressBar, tickers>>

\* variant: a staged file is kept when a second valid file is selected
HandleFileKeepsFirst(file) ==
    LET v == ValidateFile(file) IN
    /\ lastToasts' = v.toasts
    /\ candidate' = file
    /\ UNCHANGED elsewhere
    /\ IF ~v.valid
       THEN UNCHANGED <<currentFile, submitDisabled, previewVisible,
                        previewName, previewSize>>
       ELSE /\ currentFile' = IF currentFile = Null THEN file ELSE currentFile
            /\ previewName' = file.name
            /\ previewSize' = FormatFileSize(file.size)
            /\ previewVisible' = TRUE
            /\ submitDisabled' = FALSE
    /\ UNCHANGED <<formVisible, processingVisible, resultsVisible, stats,
                   progressBar, tickers, requests>>

HandleFile(file) ==
    LET v == ValidateFile(file) IN
    /\ lastToasts' = v.toasts
    /\ candidate' = file
    /\ UNCHANGED elsewhere
    /\ IF ~v.valid
       THEN UNCHANGED <<currentFile, submitDisabled, previewVisible,
                        previewName, previewSize>>
       ELSE /\ currentFile' = file
            /\ previewName' = file.name
            /\ previewSize' = FormatFileSize(file.size)
            /\ previewVisible' = TRUE
            /\ submitDisabled' = FALSE
    /\ UNCHANGED <<formVisible, processingVisible, resultsVisible, stats,
                   progressBar, tickers, requests>>

(* window.clearFile *)

\* variant: window.clearFile without submitBtn.disabled = true
ClearFileKeepsButton ==
    /\ previewVisible' = FALSE
    /\ currentFile' = Null
    /\ Shows(<<>>)
    /\ UNCHANGED elsewhere
    /\ UNCHANGED <<submitDisabled, previewName, previewSize, formVisible,
                   processingVisible, resultsVisible, stats, progressBar, tickers,
                   requests>>

ClearFile ==
    /\ previewVisible' = FALSE
    /\ submitDisabled' = TRUE
    /\ currentFile' = Null
    /\ Shows(<<>>)
    /\ UNCHANGED elsewhere
    /\ UNCHANGED <<previewName, previewSize, formVisible, processingVisible,
                   resultsVisible, stats, progressBar, tickers, requests>>

----------------------------------------------------------------------------
(* The progress ticker of upload.simulateProgress *)

\* the width at which the ticker stops
progressCap == 95

\* samples of Math.random() * 15, which lies in [0, 15)
Steps == {0, 14}

\* variant: the callback without the assignment width = 95
TickUncapped(w, step) ==
    LET width == w + step IN
    /\ BagIn(w, tickers)
    /\ IF width >= progressCap
       THEN tickers' = tickers (-) One(w)
       ELSE tickers' = (tickers (-) One(w)) (+) One(width)
    /\ progressBar' = width
    /\ Shows(<<>>)
    /\ UNCHANGED elsewhere
    /\ UNCHANGED <<currentFile, submitDisabled, previewVisible, previewName,
                   previewSize, formVisible, processingVisible, resultsVisible, stats,
                   requests>>

\* one run of the setInterval callback of a live ticker whose width is w
Tick(w, step) ==
    LET width == w + step IN
    /\ BagIn(w, tickers)
    /\ IF width >= progressCap
       THEN /\ tickers' = tickers (-) One(w)
            /\ progressBar' = progressCap
       ELSE /\ tickers' = (tickers (-) One(w)) (+) One(width)
            /\ progressBar' = width
    /\ Shows(<<>>)
    /\ UNCHANGED elsewhere
    /\ UNCHANGED <<currentFile, submitDisabled, previewVisible, previewName,
                   previewSize, formVisible, processingVisible, resultsVisible, stats,
                   requests>>

----------------------------------------------------------------------------
(* upload.handleSubmit up to its first await, with showProcessingState and *)
(* simulateProgress                                                        *)

\* the ids handleSubmit looks up for the processing options
options == <<"autoCategories", "skipDuplicates", "extractDates", "detectMerchants">>

\* the checkboxes of the page as handleSubmit finds them: id |-> checked,
\* every id of `options` existing
PageCheckboxes ==
    { [autoCategories |-> TRUE, skipDuplicates |-> FALSE,
       extractDates |-> TRUE, detectMerchants |-> FALSE] }

\* FormData.append(name, boolean) stores the string
BooleanString(b) == IF b THEN "true" ELSE "false"

\* the fields appended by options.forEach, in order
RECURSIVE OptionFields(_, _)
OptionFields(checkboxes, i) ==
    IF i > Len(options) THEN <<>>
    ELSE (IF options[i] \in DOMAIN checkboxes
          THEN << <<options[i], BooleanString(checkboxes[options[i]])>> >>
          ELSE <<>>) \o OptionFields(checkboxes, i + 1)

\* the suspended invocation: its form data, the await it is at and the
\* status of the response once fetch has resolved
Request(file, checkboxes) ==
    [file |-> file, fields |-> OptionFields(checkboxes, 1),
     awaiting |-> "fetch", status |-> 0]

\* variant: the handler without its test of this.currentFile
HandleSubmitUnchecked ==
    /\ BagCardinality(requests) < MaxInFlight
    /\ BagCardinality(tickers) < MaxInFlight
    /\ \E checkboxes \in PageCheckboxes :
          requests' = requests (+) One(Request(currentFile, checkboxes))
    /\ formVisible' = FALSE
    /\ processingVisible' = TRUE
    /\ tickers' = tickers (+) One(0)
    /\ Shows(<<>>)
    /\ UNCHANGED elsewhere
    /\ UNCHANGED <<currentFile, submitDisabled, previewVisible, previewName,
                   previewSize, resultsVisible, stats, progressBar>>

HandleSubmit ==
    IF currentFile = Null
    THEN /\ Shows(<<Toast(NoFileWarning, "warning")>>)
         /\ UNCHANGED elsewhere
         /\ UNCHANGED <<currentFile, submitDisabled, previewVisible, previewName,
                        previewSize, formVisible, processingVisible,
                        resultsVisible, stats, progressBar, tickers, requests>>
    ELSE /\ BagCardinality(requests) < MaxInFlight
         /\ BagCardinality(tickers) < MaxInFlight
         /\ \E checkboxes \in PageCheckboxes :
               requests' = requests (+) One(Request(currentFile, checkboxes))
         /\ formVisible' = FALSE
         /\ processingVisible' = TRUE
         /\ tickers' = tickers (+) One(0)
         /\ Shows(<<>>)
         /\ UNCHANGED elsewhere
         /\ UNCHANGED <<currentFile, submitDisabled, previewVisible, previewName,
                        previewSize, resultsVisible, stats, progressBar>>

----------------------------------------------------------------------------
(* upload.showResults: the statistics derived from the success message *)

\* the value is truthy (strings and undefined only)
Truthy(v) == v \notin {Undefined, ""}

\* the characters of the success messages the backend may send
transactions ==
    <<" ", "t", "r", "a", "n", "s", "a", "c", "t", "i", "o", "n", "s">>
processed == <<" ", "p", "r", "o", "c", "e", "s", "s", "e", "d">>
Processed == <<"P", "r", "o", "c", "e", "s", "s", "e", "d", " ">>

Chars ==
    [ m \in { "", "42 transactions processed", "Processed 0 transactions",
              "Processed 5 transactions from a.txt", "7 transaction processed",
              "Upload complete", "007 transactions",
              "42 transactions processed, 3 transactions skipped",
              "12transactions 9 transactions", "v2 15 transactions",
              "42 Transactions processed" } |->
      CASE m = "" -> <<>>
        [] m = "42 transactions processed" -> <<"4", "2">> \o transactions \o processed
        [] m = "Processed 0 transactions" -> Processed \o <<"0">> \o transactions
        [] m = "Processed 5 transactions from a.txt" ->
              Processed \o <<"5">> \o transactions
                  \o <<" ", "f", "r", "o", "m", " ", "a", ".", "t", "x", "t">>
        [] m = "7 transaction processed" ->
              <<"7", " ", "t", "r", "a", "n", "s", "a", "c", "t", "i", "o", "n">>
                  \o processed
        [] m = "Upload complete" ->
              <<"U", "p", "l", "o", "a", "d", " ", "c", "o", "m", "p", "l", "e", "t", "e">>
        [] m = "007 transactions" -> <<"0", "0", "7">> \o transactions
        [] m = "42 transactions processed, 3 transactions skipped" ->
              <<"4", "2">> \o transactions \o processed \o <<",", " ", "3">>
                  \o transactions \o <<" ", "s", "k", "i", "p", "p", "e", "d">>
        [] m = "12transactions 9 transactions" ->
              <<"1", "2">> \o Tail(transactions) \o <<" ", "9">> \o transactions
        [] m = "v2 15 transactions" -> <<"v", "2", " ", "1", "5">> \o transactions
        [] m = "42 Transactions processed" ->
              <<"4", "2", " ", "T">> \o Tail(Tail(transactions)) \o processed ]

Messages == DOMAIN Chars

Digits == <<"0", "1", "2", "3", "4", "5", "6", "7", "8", "9">>

\* c matches \d
IsDigit(c) == \E d \in 1..10 : Digits[d] = c

\* the last index of the run of digits that starts at i: \d+ is greedy
RECURSIVE RunEnd(_, _)
RunEnd(s, i) ==
    IF i < Len(s) /\ IsDigit(s[i + 1]) THEN RunEnd(s, i + 1) ELSE i

\* literal occurs in s at index i
OccursAt(s, i, literal) ==
    /\ i + Len(literal) - 1 <= Len(s)
    /\ SubSeq(s, i, i + Len(literal) - 1) = literal

\* the indices at which /(\d+) transactions/ matches; a run of digits shorter
\* than the greedy one is followed by a digit, never by the space
MatchStarts(s) ==
    { i \in 1..Len(s) :
        IsDigit(s[i]) /\ OccursAt(s, RunEnd(s, i) + 1, transactions) }

\* message.match(/(\d+) transactions/): the capture of the leftmost match,
\* or the characters of '0'
ProcessedCount(s) ==
    IF MatchStarts(s) = {} THEN <<"0">>
    ELSE LET i == CHOOSE m \in MatchStarts(s) : \A n \in MatchStarts(s) : m <= n
         IN  SubSeq(s, i, RunEnd(s, i))

\* the number a string of digits converts to
RECURSIVE ToNumber(_)
ToNumber(digits) ==
    IF digits = <<>> THEN 0
    ELSE 10 * ToNumber(SubSeq(digits, 1, Len(digits) - 1))
         + (CHOOSE d \in 0..9 : Digits[d + 1] = digits[Len(digits)])

\* #confidenceScore
confidenceScore == "85%"

\* variant: Math.round in place of Math.floor
StatsRounded(data) ==
    LET message == IF Truthy(data.success) THEN data.success ELSE ""
        processedCount == ProcessedCount(Chars[message])
    IN  [ processedCount |-> processedCount,
          categorizedCount |-> (ToNumber(processedCount) * 8 + 5) \div 10,
          merchantsFound |-> (ToNumber(processedCount) * 6 + 5) \div 10,
          confidenceScore |-> confidenceScore ]

\* the values showResults writes; Math.floor(processedCount * 0.8) and
\* Math.floor(processedCount * 0.6) in exact arithmetic, which the doubles
\* agree with for the counts of Messages
Stats(data) ==
    LET message == IF Truthy(data.success) THEN data.success ELSE ""
        processedCount == ProcessedCount(Chars[message])
    IN  [ processedCount |-> processedCount,
          categorizedCount |-> (ToNumber(processedCount) * 8) \div 10,
          merchantsFound |-> (ToNumber(processedCount) * 6) \div 10,
          confidenceScore |-> confidenceScore ]

----------------------------------------------------------------------------
(* The answers of POST /upload *)

Statuses == {200, 500}

JsonNull == [kind |-> "null"]

JsonObject(error, success) ==
    [kind |-> "object", error |-> error, success |-> success]

Results ==
    {JsonNull} \cup
    { JsonObject(e, s) : e \in {Undefined, "", "bad format"},
                         s \in {Undefined, "42 transactions processed"} }

(* upload.handleSubmit: fetch('/upload') resolves, response.json() starts *)

FetchResolve(r, status) ==
    /\ BagIn(r, requests)
    /\ r.awaiting = "fetch"
    /\ requests' = (requests (-) One(r))
                       (+) One([r EXCEPT !.awaiting = "json", !.status = status])
    /\ Shows(<<>>)
    /\ UNCHANGED elsewhere
    /\ UNCHANGED <<currentFile, submitDisabled, previewVisible, previewName,
                   previewSize, formVisible, processingVisible, resultsVisible, stats,
                   progressBar, tickers>>

(* upload.handleSubmit: the catch block *)

Catch(r) ==
    /\ requests' = requests (-) One(r)
    /\ processingVisible' = FALSE
    /\ formVisible' = TRUE
    /\ Shows(<<Toast(UploadFailed, "danger")>>)
    /\ UNCHANGED elsewhere
    /\ UNCHANGED <<currentFile, submitDisabled, previewVisible, previewName,
                   previewSize, resultsVisible, stats, progressBar, tickers>>

\* fetch rejects: the network failed
FetchReject(r) ==
    /\ BagIn(r, requests)
    /\ r.awaiting = "fetch"
    /\ Catch(r)

\* response.json() rejects: the body is not JSON
JsonReject(r) ==
    /\ BagIn(r, requests)
    /\ r.awaiting = "json"
    /\ Catch(r)

\* variant: the error branch without its call of showUploadForm
JsonResolveFormHidden(r, result) ==
    /\ BagIn(r, requests)
    /\ r.awaiting = "json"
    /\ IF result = JsonNull
       THEN Catch(r)
       ELSE /\ requests' = requests (-) One(r)
            /\ processingVisible' = FALSE
            /\ IF Truthy(result.error)
               THEN /\ Shows(<<Toast(result.error, "danger")>>)
                    /\ UNCHANGED elsewhere
                    /\ UNCHANGED <<formVisible, resultsVisible, stats>>
               ELSE /\ stats' = Stats(result)
                    /\ resultsVisible' = TRUE
                    /\ Shows(<<Toast(result.success, "success")>>)
                    /\ UNCHANGED elsewhere
                    /\ UNCHANGED formVisible
            /\ UNCHANGED <<currentFile, submitDisabled, previewVisible,
                           previewName, previewSize, progressBar, tickers>>

(* upload.handleSubmit after response.json() resolves, with showResults *)

JsonResolve(r, result) ==
    /\ BagIn(r, requests)
    /\ r.awaiting = "json"
    /\ IF result = JsonNull
       THEN \* result.error throws a TypeError, after hideProcessingState
            Catch(r)
       ELSE /\ requests' = requests (-) One(r)
            /\ processingVisible' = FALSE
            /\ IF Truthy(result.error)
               THEN /\ Shows(<<Toast(result.error, "danger")>>)
                    /\ UNCHANGED elsewhere
                    /\ formVisible' = TRUE
                    /\ UNCHANGED <<resultsVisible, stats>>
               ELSE /\ stats' = Stats(result)
                    /\ resultsVisible' = TRUE
                    /\ Shows(<<Toast(result.success, "success")>>)
                    /\ UNCHANGED elsewhere
                    /\ UNCHANGED formVisible
            /\ UNCHANGED <<currentFile, submitDisabled, previewVisible,
                           previewName, previewSize, progressBar, tickers>>

----------------------------------------------------------------------------
(* The upload page: any handler may run next *)

Next ==
    \/ \E file \in Files : HandleFile(file)
    \/ ClearFile
    \/ HandleSubmit
    \/ \E w \in BagToSet(tickers), step \in Steps : Tick(w, step)
    \/ \E r \in BagToSet(requests), status \in Statuses : FetchResolve(r, status)
    \/ \E r \in BagToSet(requests) : FetchReject(r)
    \/ \E r \in BagToSet(requests) : JsonReject(r)
    \/ \E r \in BagToSet(requests), result \in Results : JsonResolve(r, result)

Spec == Init /\ [][Next]_vars

(* The staging handlers taken alone, over every candidate *)

NextStaging ==
    \/ \E file \in Candidates : HandleFile(file)
    \/ ClearFile

SpecStaging == Init /\ [][NextStaging]_vars

(* Uploads the backend accepts, over every success message *)

SuccessResults == { JsonObject(Undefined, s) : s \in Messages \cup {Undefined} }

NextResults ==
    \/ HandleFile(reportTxt)
    \/ HandleSubmit
    \/ \E w \in BagToSet(tickers) : Tick(w, 14)
    \/ \E r \in BagToSet(requests) : FetchResolve(r, 200)
    \/ \E r \in BagToSet(requests), result \in SuccessResults :
           JsonResolve(r, result)

SpecResults == Init /\ [][NextResults]_vars

----------------------------------------------------------------------------
(* utils.apiRequest as dashboard.loadDashboardData awaits it *)

ApiError == "An error occurred. Please try again."

\* final statuses fetch may resolve with
ApiStatuses == {200, 299, 300, 404}

\* variant: response.ok taken as any status below 400
OkBelow400(status) == status < 400

\* response.ok
Ok(status) == status >= 200 /\ status <= 299

\* what response.json() may resolve with: an object, or null
Bodies == {"object", "null"}

\* the invocation of loadDashboardData suspended in apiRequest for the chart
\* of `stage`: the await it is at and the status once fetch has resolved
Load(stage) == [stage |-> stage, awaiting |-> "fetch", status |-> 0]

\* the handler run showed these toasts and settled this call of apiRequest
Settles(outcome, toasts) ==
    /\ apiOutcome' = outcome
    /\ lastToasts' = toasts
    /\ candidate' = Null
    /\ UNCHANGED <<uploadState, debounceVars>>

\* the catch block of apiRequest, then the one of loadDashboardData
ApiThrow(l, fetch, status, body) ==
    /\ loads' = loads (-) One(l)
    /\ Settles([settled |-> "threw", fetch |-> fetch, status |-> status,
                body |-> body, value |-> "none"],
               <<Toast(ApiError, "danger")>>)
    /\ UNCHANGED <<charts, created, refreshes>>

\* fetch resolves: apiRequest tests response.ok and awaits response.json()
ApiFetchResolve(l, status) ==
    /\ BagIn(l, loads)
    /\ l.awaiting = "fetch"
    /\ IF Ok(status)
       THEN /\ loads' = (loads (-) One(l))
                            (+) One([l EXCEPT !.awaiting = "json",
                                              !.status = status])
            /\ Settles(NoApiRequest, <<>>)
            /\ UNCHANGED <<charts, created, refreshes>>
       ELSE ApiThrow(l, "resolved", status, "none")

\* fetch rejects: the network failed
ApiFetchReject(l) ==
    /\ BagIn(l, loads)
    /\ l.awaiting = "fetch"
    /\ ApiThrow(l, "rejected", 0, "none")

\* response.json() rejects: the body is not JSON
ApiJsonReject(l) ==
    /\ BagIn(l, loads)
    /\ l.awaiting = "json"
    /\ ApiThrow(l, "resolved", l.status, "malformed")

----------------------------------------------------------------------------
(* dashboard.loadDashboardData and dashboard.refresh *)

\* what `new Chart` does on a canvas that holds a chart not yet destroyed:
\* Chart.js 2 attaches a second chart, Chart.js 3 and later throw
CanvasReuse == {"attaches", "throws"}

\* the canvas of the slot holds a chart that was not destroyed
InUse(slot) ==
    \E i \in DOMAIN created : created[i].slot = slot /\ ~created[i].destroyed

\* response.json() resolves: apiRequest returns the body, and
\* loadDashboardData creates the chart of its stage and goes on
ApiJsonResolve(l, data, reuse) ==
    /\ BagIn(l, loads)
    /\ l.awaiting = "json"
    /\ Settles([settled |-> "returned", fetch |-> "resolved",
                status |-> l.status, body |-> data, value |-> data], <<>>)
    /\ UNCHANGED refreshes
    /\ IF data = "null" \/ (InUse(l.stage) /\ reuse = "throws")
       THEN \* data.labels or `new Chart` throws, caught by loadDashboardData
            /\ loads' = loads (-) One(l)
            /\ UNCHANGED <<charts, created>>
       ELSE /\ created' = Append(created, [slot |-> l.stage, destroyed |-> FALSE])
            /\ charts' = [charts EXCEPT ![l.stage] = Len(created) + 1]
            /\ loads' = IF l.stage = "spending"
                        THEN (loads (-) One(l)) (+) One(Load("category"))
                        ELSE loads (-) One(l)

Refreshed == "Dashboard refreshed"

Refresh ==
    /\ refreshes < MaxRefresh
    /\ refreshes' = refreshes + 1
    /\ created' = [i \in DOMAIN created |->
                      IF i \in {charts[slot] : slot \in Slots}
                      THEN [created[i] EXCEPT !.destroyed = TRUE]
                      ELSE created[i]]
    /\ loads' = loads (+) One(Load("spending"))
    /\ Settles(NoApiRequest, <<Toast(Refreshed, "success")>>)
    /\ UNCHANGED charts

\* the data-period values of the period selector buttons
Loading == [week |-> "Loading week data...", month |-> "Loading month data..."]

UpdateSpendingChart(period) ==
    /\ Settles(NoApiRequest, <<Toast(Loading[period], "info")>>)
    /\ UNCHANGED <<charts, created, loads, refreshes>>

\* the dashboard page after dashboard.init: the first load is in flight
InitDashboard ==
    /\ InitUpload
    /\ charts = [slot \in Slots |-> NoChart]
    /\ created = <<>>
    /\ loads = One(Load("spending"))
    /\ refreshes = 0
    /\ apiOutcome = NoApiRequest
    /\ InitDebounce

NextDashboard ==
    \/ Refresh
    \/ \E period \in DOMAIN Loading : UpdateSpendingChart(period)
    \/ \E l \in BagToSet(loads), status \in ApiStatuses : ApiFetchResolve(l, status)
    \/ \E l \in BagToSet(loads) : ApiFetchReject(l)
    \/ \E l \in BagToSet(loads) : ApiJsonReject(l)
    \/ \E l \in BagToSet(loads), data \in Bodies, reuse \in CanvasReuse :
           ApiJsonResolve(l, data, reuse)

SpecDashboard == InitDashboard /\ [][NextDashboard]_vars

----------------------------------------------------------------------------
(* utils.debounce(func, wait) *)

\* the delay the function was wrapped with
wait == 2

\* the argument lists the debounced function is called with
Args == {"a", "b"}

\* the calls so far of the burst a call made now belongs to
BurstSoFar ==
    IF lastCall.made /\ now - lastCall.at < wait THEN burst ELSE 0

\* variant: a call made while a timer is armed leaves its closure in place
ExecutedFunctionKeepsArgs(args) ==
    /\ BurstSoFar < MaxBurst
    /\ timeout' = [armed |-> TRUE, due |-> now + wait,
                   args |-> IF timeout.armed THEN timeout.args ELSE args]
    /\ lastCall' = [made |-> TRUE, at |-> now, args |-> args]
    /\ burst' = BurstSoFar + 1
    /\ reported' = FALSE
    /\ invokedWith' = NotInvoked
    /\ UNCHANGED <<now, uploadState, lastToasts, candidate, dashboardVars>>

\* a call of the debounced function: clearTimeout, then setTimeout(later, wait)
ExecutedFunction(args) ==
    /\ BurstSoFar < MaxBurst
    /\ timeout' = [armed |-> TRUE, due |-> now + wait, args |-> args]
    /\ lastCall' = [made |-> TRUE, at |-> now, args |-> args]
    /\ burst' = BurstSoFar + 1
    /\ reported' = FALSE
    /\ invokedWith' = NotInvoked
    /\ UNCHANGED <<now, uploadState, lastToasts, candidate, dashboardVars>>

\* the timer runs `later`, no sooner than `wait` after it was set
Later ==
    /\ timeout.armed
    /\ now >= timeout.due
    /\ timeout' = NoTimer
    /\ invokedWith' = timeout.args
    /\ reported' = TRUE
    /\ UNCHANGED <<now, lastCall, burst, uploadState, lastToasts, candidate,
                   dashboardVars>>

\* a millisecond passes
Pass ==
    /\ now < MaxTime
    /\ now' = now + 1
    /\ invokedWith' = NotInvoked
    /\ UNCHANGED <<timeout, lastCall, burst, reported, uploadState, lastToasts,
                   candidate, dashboardVars>>

NextDebounce ==
    \/ \E args \in Args : ExecutedFunction(args)
    \/ Later
    \/ Pass

SpecDebounce == Init /\ [][NextDebounce]_vars

----------------------------------------------------------------------------
(* Properties *)

\* the controller is in Submitting: a handleSubmit invocation is suspended
Submitting == requests # EmptyBag

\* C1: once the controller has left Submitting (success, backend error or
\* transport failure), no progress tick fires: the progress value is not
\* changed while no submission is in flight.
C1_TickerCancelled ==
    [][~Submitting => progressBar' = progressBar]_vars

\* C2: at most one upload request is outstanding at any time; a submit
\* while one is in flight issues no second request.
C2_SingleOutstanding == BagCardinality(requests) <= 1

\* What the upload page documents about candidates, stated on its own:
\* the MIME types and the names of Names that carry an allowed extension
AllowedMime == {"text/plain", "text/csv", "application/json"}

NamesWithAllowedExtension ==
    { <<"a", ".", "t", "x", "t">>,
      <<"A", ".", "T", "X", "T">>,
      <<"b", ".", "c", "s", "v">>,
      <<"b", ".", "C", "s", "v">>,
      <<"c", ".", "j", "s", "o", "n">>,
      <<"C", ".", "J", "S", "O", "N">>,
      <<".", "c", "s", "v">> }

SixteenMiB == 16 * 1024 * 1024

TypeOrExtensionAllowed(f) ==
    f.type \in AllowedMime \/ f.name \in NamesWithAllowedExtension

Acceptable(f) == TypeOrExtensionAllowed(f) /\ f.size <= SixteenMiB

\* a handleSubmit invocation issued a request carrying file f
Issued(f) ==
    \E q \in BagToSet(requests') :
        /\ q.file = f /\ q.awaiting = "fetch" /\ q.status = 0
        /\ requests' = requests (+) One(q)

\* C3: at most one staged file exists, and it passed validation; a request
\* is issued only for the staged file; submit with no staged file issues no
\* request, shows a warning and changes nothing else.
C3_SubmitNeedsStagedFile ==
    /\ [](currentFile = Null \/ (currentFile \in Files /\ Acceptable(currentFile)))
    /\ [][ /\ BagCardinality(requests') > BagCardinality(requests)
                => currentFile # Null /\ Issued(currentFile)
           /\ (currentFile = Null /\ HandleSubmit)
                => /\ lastToasts' = <<Toast(NoFileWarning, "warning")>>
                   /\ UNCHANGED <<currentFile, submitDisabled, previewVisible,
                                  previewName, previewSize, formVisible,
                                  processingVisible, resultsVisible, stats,
                                  progressBar, tickers, requests>> ]_vars

\* C3 case: a submit with no staged file was refused with a warning while an
\* earlier request, issued for a staged file, is still in flight
C3_Witness ==
    /\ lastToasts = <<Toast(NoFileWarning, "warning")>>
    /\ currentFile = Null
    /\ requests # EmptyBag

\* the catch path as the user sees it, for the request r
FailedPath(r) ==
    /\ requests' = requests (-) One(r)
    /\ ~processingVisible'
    /\ formVisible'
    /\ lastToasts' = <<Toast(UploadFailed, "danger")>>
    /\ resultsVisible' = resultsVisible

\* C4: every transport failure (network error, non-2xx status, malformed
\* body) takes the Failed path: Submitting is left, the processing panel is
\* hidden, the form is shown, the generic failure notification is shown and
\* no result summary is rendered; a non-2xx answer is a failure whatever
\* its JSON body.
C4_TransportFailureFails ==
    [][ \A r \in BagToSet(requests) :
            ( \/ FetchReject(r)
              \/ JsonReject(r)
              \/ /\ r.status \notin 200..299
                 /\ \E result \in Results : JsonResolve(r, result) )
            => FailedPath(r) ]_vars

\* C5: a response carrying an `error` field shows it verbatim, hides the
\* processing panel, renders no result summary, shows the form with the
\* submit button enabled, and the staged file is the one that was submitted.
C5_ErrorFieldFails ==
    [][ \A r \in BagToSet(requests) : \A result \in Results \ {JsonNull} :
            (JsonResolve(r, result) /\ result.error # Undefined)
            => /\ lastToasts' = <<Toast(result.error, "danger")>>
               /\ ~processingVisible'
               /\ resultsVisible' = resultsVisible
               /\ formVisible'
               /\ ~submitDisabled'
               /\ currentFile' = r.file ]_vars

\* C5 as the code has it: a response carrying a non-empty `error` field
\* shows it verbatim, hides the processing panel, renders no result summary
\* and shows the form; the handler leaves the staged file and the submit
\* button untouched, so a file still staged is the submitted one unless a
\* selection or a reset ran meanwhile, and a following submit issues a new
\* request with the staged file.
C5_NonEmptyErrorFails ==
    [][ /\ \A r \in BagToSet(requests) : \A result \in Results \ {JsonNull} :
              (/\ result.error \notin {Undefined, ""}
               /\ BagCardinality(requests') < BagCardinality(requests)
               /\ JsonResolve(r, result))
              => /\ lastToasts' = <<Toast(result.error, "danger")>>
                 /\ ~processingVisible'
                 /\ resultsVisible' = resultsVisible
                 /\ formVisible'
                 /\ submitDisabled' = submitDisabled
                 /\ currentFile' = currentFile
                 /\ requests' = requests (-) One(r)
        /\ (HandleSubmit /\ currentFile # Null) => Issued(currentFile) ]_vars

\* C5 case: the backend's "bad format" was shown, the form is back, the
\* file is still staged and submittable, nothing is in flight
C5_Witness ==
    /\ lastToasts = <<Toast("bad format", "danger")>>
    /\ formVisible /\ ~processingVisible /\ ~resultsVisible
    /\ currentFile = reportTxt /\ ~submitDisabled
    /\ requests = EmptyBag

\* C6: a candidate with a disallowed MIME type and a disallowed extension is
\* rejected with a warning, and the staged file, the submit button and
\* everything else stay as they were.
C6_RejectedLeavesStateUnchanged ==
    [][ (candidate' # Null /\ ~TypeOrExtensionAllowed(candidate'))
            => /\ Len(lastToasts') = 1
               /\ lastToasts'[1].type = "warning"
               /\ UNCHANGED <<currentFile, submitDisabled, previewVisible,
                              previewName, previewSize, formVisible,
                              processingVisible, resultsVisible, stats, progressBar,
                              tickers, requests>> ]_vars

\* C6 case: a candidate was refused for its type while a file is staged,
\* and the staged file and the enabled button are still there
C6_Witness ==
    /\ candidate # Null
    /\ ~TypeOrExtensionAllowed(candidate)
    /\ lastToasts = <<Toast(TypeWarning, "warning")>>
    /\ currentFile # Null
    /\ ~submitDisabled
    /\ previewName = currentFile.name

\* C7: a candidate with an allowed type or extension is rejected with the
\* size message exactly when its size is above 16 MiB; at exactly 16 MiB it
\* is accepted, and a rejected oversized candidate is not staged.
C7_SizeCeiling ==
    [][ (candidate' # Null /\ TypeOrExtensionAllowed(candidate'))
            => /\ (lastToasts' = <<Toast(SizeWarning, "warning")>>)
                      <=> (candidate'.size > SixteenMiB)
               /\ candidate'.size > SixteenMiB => currentFile' = currentFile
               /\ candidate'.size <= SixteenMiB
                      => currentFile' = candidate' /\ lastToasts' = <<>> ]_vars

\* C7 case: a file of exactly 16 MiB is staged and a later oversized
\* candidate was refused with the size message
C7_Witness ==
    /\ candidate # Null
    /\ TypeOrExtensionAllowed(candidate)
    /\ candidate.size = SixteenMiB + 1
    /\ lastToasts = <<Toast(SizeWarning, "warning")>>
    /\ currentFile # Null
    /\ currentFile.size = SixteenMiB

\* C8: a validation attempt shows exactly one notification when the candidate
\* is rejected and none when it is accepted; a candidate failing both checks
\* gets the type notification.
C8_OneReasonTypeFirst ==
    [][ candidate' # Null
            => /\ Len(lastToasts') = IF Acceptable(candidate') THEN 0 ELSE 1
               /\ (~TypeOrExtensionAllowed(candidate')
                      /\ candidate'.size > SixteenMiB)
                      => lastToasts' = <<Toast(TypeWarning, "warning")>> ]_vars

\* C8 case: a candidate failing both checks was refused and exactly one
\* notification, the type one, is shown
C8_Witness ==
    /\ candidate # Null
    /\ ~TypeOrExtensionAllowed(candidate)
    /\ candidate.size > SixteenMiB
    /\ Len(lastToasts) = 1
    /\ lastToasts[1].message = TypeWarning

\* C9: a valid selection replaces the staged file and enables the submit
\* button, an invalid one leaves the staged file, and a submit sends the
\* staged file.
C9_LatestValidSelectionWins ==
    [][ /\ candidate' # Null
              => IF Acceptable(candidate')
                 THEN currentFile' = candidate' /\ ~submitDisabled'
                 ELSE currentFile' = currentFile
        /\ BagCardinality(requests') > BagCardinality(requests) => Issued(currentFile) ]_vars

\* C9 case: reportTxt was staged and sent, ledgerCsv was selected over it,
\* and the following submit sent ledgerCsv
C9_Witness ==
    /\ BagCardinality(requests) = 2
    /\ {q.file : q \in BagToSet(requests)} = {reportTxt, ledgerCsv}
    /\ \A q \in BagToSet(requests) : q.awaiting = "fetch"
    /\ currentFile = ledgerCsv
    /\ ~submitDisabled

\* Math.random() * 15 is below this
StepLimit == 15

\* C10: the progress value never exceeds 95; every ticker starts at 0 and
\* every tick adds a step in [0, 15) to its ticker, capped at 95.
C10_ProgressCapped ==
    /\ [](/\ progressBar \in 0..95
          /\ \A w \in BagToSet(tickers) : w \in 0..94)
    /\ [][ (tickers' # tickers \/ progressBar' # progressBar)
           => \/ tickers' = tickers (+) One(0) /\ progressBar' = progressBar
              \/ \E w \in BagToSet(tickers) : \E step \in 0..(StepLimit - 1) :
                    IF w + step >= 95
                    THEN progressBar' = 95 /\ tickers' = tickers (-) One(w)
                    ELSE /\ progressBar' = w + step
                         /\ tickers' = (tickers (-) One(w)) (+) One(w + step) ]_vars

\* C10 case: the ticker reached the cap while the request is still in flight
C10_Witness ==
    /\ progressBar = 95
    /\ tickers = EmptyBag
    /\ BagCardinality(requests) = 1

\* C11: reset() clears the staged file, hides the preview panel and the
\* result panel and disables submission, from any state; a submit right
\* after it issues no request.
C11_ResetHidesPanels ==
    [][ ClearFile
        => /\ currentFile' = Null
           /\ ~previewVisible'
           /\ ~resultsVisible'
           /\ submitDisabled' ]_vars

\* C15: at most one progress ticker is live at any time, across submits,
\* failures and retries.
C15_SingleTicker == BagCardinality(tickers) <= 1

\* C16: a result summary and a success notification appear only for a
\* response carrying a `success` field; a response with neither a non-empty
\* `error` nor a `success` is not rendered as a success.
C16_CompletedNeedsSuccess ==
    [][ \A r \in BagToSet(requests) : \A result \in Results \ {JsonNull} :
            ( /\ result.success = Undefined
              /\ result.error \in {Undefined, ""}
              /\ JsonResolve(r, result) )
            => /\ resultsVisible' = resultsVisible
               /\ \A i \in 1..Len(lastToasts') : lastToasts'[i].type # "success" ]_vars

\* C17: the submit button is enabled exactly when a file is staged.
C17_ButtonFollowsStagedFile == (~submitDisabled) <=> (currentFile # Null)

\* C17 case: a file was staged and then cleared while its request is in
\* flight; the button is disabled again
C17_Witness ==
    /\ currentFile = Null
    /\ submitDisabled
    /\ previewName # <<>>
    /\ requests # EmptyBag

\* C18: a selection or a reset leaves the requests in flight as they are,
\* payload included, and every response is still handled: the request is
\* consumed, the processing panel is hidden and one notification is shown.
C18_PayloadFixedAtSubmit ==
    [][ /\ (candidate' # Null \/ ClearFile) => requests' = requests
        /\ BagCardinality(requests') < BagCardinality(requests)
              => /\ ~processingVisible'
                 /\ Len(lastToasts') = 1
                 /\ lastToasts'[1].type \in {"danger", "success"} ]_vars

\* C18 case: reportTxt is in flight, ledgerCsv was selected meanwhile
C18_Witness ==
    /\ candidate = ledgerCsv
    /\ currentFile = ledgerCsv
    /\ BagCardinality(requests) = 1
    /\ \A q \in BagToSet(requests) : q.file = reportTxt

\* the option names of the upload interface
OptionNames == {"autoCategorize", "skipDuplicates", "extractDates", "detectMerchants"}

\* the value of field name in the form data of request q, the set of them
FieldValues(q, name) ==
    { q.fields[i][2] : i \in { j \in 1..Len(q.fields) : q.fields[j][1] = name } }

\* C13: the payload of every request carries the staged file and, for each
\* of autoCategorize, skipDuplicates, extractDates and detectMerchants,
\* exactly one boolean-valued field.
C13_PayloadCarriesOptions ==
    \A q \in BagToSet(requests) :
        /\ q.file # Null
        /\ \A name \in OptionNames :
              \E value \in {"true", "false"} : FieldValues(q, name) = {value}

\* the number N of the first "<N> transactions" of each success message, 0
\* when the message has none
TransactionsIn ==
    [ m \in Messages \cup {Undefined} |->
      CASE m = "42 transactions processed" -> 42
        [] m = "Processed 0 transactions" -> 0
        [] m = "Processed 5 transactions from a.txt" -> 5
        [] m = "007 transactions" -> 7
        [] m = "42 transactions processed, 3 transactions skipped" -> 42
        [] m = "12transactions 9 transactions" -> 9
        [] m = "v2 15 transactions" -> 15
        [] OTHER -> 0 ]

\* the messages that hold no "<N> transactions"
WithoutCount ==
    { Undefined, "", "7 transaction processed", "Upload complete",
      "42 Transactions processed" }

\* a step that renders the success response whose message is m
Rendered(m) ==
    /\ lastToasts' = <<Toast(m, "success")>>
    /\ BagCardinality(requests') < BagCardinality(requests)

\* C12: a success response whose message holds "<N> transactions" renders
\* processed = N, categorized = floor(N*8/10), merchants found = floor(N*6/10)
\* and confidence "85%"; a message without the pattern renders the three
\* counts as 0.
C12_StatsFromMessage ==
    [][\A m \in Messages \cup {Undefined} :
          Rendered(m) =>
              /\ resultsVisible'
              /\ ToNumber(stats'.processedCount) = TransactionsIn[m]
              /\ stats'.categorizedCount = (TransactionsIn[m] * 8) \div 10
              /\ stats'.merchantsFound = (TransactionsIn[m] * 6) \div 10
              /\ stats'.confidenceScore = "85%"
              /\ m \in WithoutCount =>
                     /\ stats'.processedCount = <<"0">>
                     /\ stats'.categorizedCount = 0
                     /\ stats'.merchantsFound = 0]_vars

C12_Witness ==
    /\ lastToasts = <<Toast("42 transactions processed", "success")>>
    /\ resultsVisible
    /\ stats = [ processedCount |-> <<"4", "2">>, categorizedCount |-> 33,
                 merchantsFound |-> 25, confidenceScore |-> "85%" ]

\* a success status: 200 to 299
SuccessStatus(status) == status \in 200..299

\* the call of apiRequest failed: one error notification, no value, and the
\* caller's continuation did not run
Propagated ==
    /\ apiOutcome'.settled = "threw"
    /\ apiOutcome'.value = "none"
    /\ lastToasts' = <<Toast("An error occurred. Please try again.", "danger")>>
    /\ UNCHANGED <<charts, created>>

\* the call of apiRequest returned the parsed body and showed nothing
ReturnedBody ==
    /\ apiOutcome'.settled = "returned"
    /\ apiOutcome'.value = apiOutcome'.body
    /\ apiOutcome'.body \in Bodies
    /\ lastToasts' = <<>>

\* a response with a status other than 200..299, or a network failure,
\* settles the call at once
FailuresSettle ==
    /\ \A l \in BagToSet(loads), status \in ApiStatuses \ (200..299) :
           ApiFetchResolve(l, status) => apiOutcome'.settled = "threw"
    /\ \A l \in BagToSet(loads) :
           ApiFetchReject(l) => apiOutcome'.settled = "threw"

\* C14 as stated: on a non-success status or a network failure apiRequest
\* shows exactly one error notification and propagates the failure, returning
\* no value; on a success status it returns the parsed body and shows no
\* notification.
C14_SuccessStatusReturns ==
    [][/\ FailuresSettle
       /\ apiOutcome'.settled # "none" =>
              IF apiOutcome'.fetch = "rejected"
                    \/ ~SuccessStatus(apiOutcome'.status)
              THEN Propagated
              ELSE ReturnedBody]_vars

\* C14: on a non-success status or a network failure apiRequest shows exactly
\* one error notification and propagates the failure, returning no value; on
\* a success status whose body parses as JSON it returns the parsed body and
\* shows no notification; on a success status whose body does not parse it
\* shows the same notification and propagates the failure.
C14_ParsedBodyReturns ==
    [][/\ FailuresSettle
       /\ apiOutcome'.settled # "none" =>
              IF \/ apiOutcome'.fetch = "rejected"
                 \/ ~SuccessStatus(apiOutcome'.status)
                 \/ apiOutcome'.body = "malformed"
              THEN Propagated
              ELSE ReturnedBody]_vars

C14_Witness ==
    /\ apiOutcome.settled = "threw"
    /\ apiOutcome.status = 200
    /\ apiOutcome.body = "malformed"
    /\ lastToasts = <<Toast(ApiError, "danger")>>

Invoked == invokedWith' # NotInvoked

\* the debounced function is called in this step
Called == \E args \in Args : ExecutedFunction(args)

\* func runs no sooner than `wait` after the latest call, with the arguments
\* of that call, and not a second time after it
InvokedForLatestCall ==
    Invoked =>
        /\ now - lastCall.at >= wait
        /\ invokedWith' = lastCall.args
        /\ ~reported

\* C20 as stated: func never runs less than `wait` after a call, and every
\* burst of calls less than `wait` apart gets exactly one run of func, after
\* its last call and with that call's arguments: when the next burst begins,
\* the burst before it has had its run.
C20_OncePerBurst ==
    [][/\ InvokedForLatestCall
       /\ Called /\ lastCall.made =>
              IF BurstSoFar = 0 THEN reported ELSE ~reported]_vars

\* C20: func never runs less than `wait` after a call; each run has the
\* arguments of the latest call; func runs at most once per burst and never
\* between two calls of a burst.
C20_AtMostOncePerBurst ==
    [][/\ InvokedForLatestCall
       /\ Called /\ BurstSoFar > 0 => ~reported]_vars

C20_Witness ==
    /\ invokedWith = "b"
    /\ lastCall.args = "b"
    /\ burst >= 2
    /\ reported

============================================================================
